---- MODULE Spec2Model ----
(***************************************************************************)
(* Snowflake ID generator (src/src/index.ts): a generator instance, its    *)
(* construction, its generate()/generateWithInfo() calls against a wall    *)
(* clock that the environment may move in either direction, a second       *)
(* instance beside it, the convenience function generateSnowflakeId and    *)
(* the parser parseSnowflakeId.                                            *)
(*                                                                         *)
(* Numbers.  The source packs ids in BigInt.  TLC's integers are 32 bits   *)
(* wide, so a BigInt is held here as two limbs <<hi, lo>> of value         *)
(* hi * Limb + lo with 0 <= lo < Limb (two's complement: hi carries the    *)
(* sign).  Clock readings, epochs and the three fields are plain integers. *)
(* A JavaScript number given as the machineId option is held as twice its  *)
(* value, so that 3 stands for 1.5 and Number.isInteger is "is even".      *)
(* An absent option is <<>>, a given one <<v>>.                            *)
(***************************************************************************)
EXTENDS Integers, Sequences, FiniteSets

\* ------------------------------------------------------------- constants

MACHINE_ID_BITS == 10

SEQUENCE_BITS == 12

MAX_MACHINE_ID == 2^MACHINE_ID_BITS - 1

MAX_SEQUENCE == 2^SEQUENCE_BITS - 1

MACHINE_ID_SHIFT == SEQUENCE_BITS

TIMESTAMP_SHIFT == SEQUENCE_BITS + MACHINE_ID_BITS

\* The backward jump handleClockDrift still tolerates (5000n).
DRIFT_LIMIT == 5000

\* Width of the timestamp field named by validateEpoch (1n << 41n).
TIMESTAMP_BITS == 41

\* ---------------------------------------------------------------- bounds

\* The clock reads 0..MaxTick, DRIFT_LIMIT + MaxTick or one more: backward
\* jumps of exactly DRIFT_LIMIT, of DRIFT_LIMIT + 1 and of more are among the
\* readings, and so is a reading after the one a tolerated jump left.
MaxTick == 1

ClockValues ==
    (0 .. MaxTick) \cup {DRIFT_LIMIT + MaxTick, DRIFT_LIMIT + MaxTick + 1}

\* The calls made in a run that keeps the set of all ids returned.
MaxCalls == 3

\* ------------------------------------------------- BigInt, as two limbs

Limb == 2^22

Max(a, b) == IF a >= b THEN a ELSE b

Min(a, b) == IF a <= b THEN a ELSE b

\* a | b on two's complement integers of any sign.
IntOr(a, b) ==
    LET or[x \in Int, y \in Int] ==
            IF x = 0 THEN y
            ELSE IF y = 0 THEN x
            ELSE IF x = -1 \/ y = -1 THEN -1
            ELSE 2 * or[x \div 2, y \div 2] + Max(x % 2, y % 2)
    IN  or[a, b]

\* a & b on two's complement integers of any sign.
IntAnd(a, b) ==
    LET and[x \in Int, y \in Int] ==
            IF x = 0 \/ y = 0 THEN 0
            ELSE IF x = -1 THEN y
            ELSE IF y = -1 THEN x
            ELSE 2 * and[x \div 2, y \div 2] + Min(x % 2, y % 2)
    IN  and[a, b]

\* BigInt(n) of a number n.
BigOf(n) == <<n \div Limb, n % Limb>>

\* Number(a) of a BigInt a (exact: every value the model converts is small).
BigToNumber(a) == a[1] * Limb + a[2]

\* BigInt(n) << BigInt(k), for 0 <= k <= 22.
BigShl(n, k) == <<n \div 2^(22 - k), (n % 2^(22 - k)) * 2^k>>

\* a >> BigInt(k), for 0 <= k <= 22 (arithmetic shift: rounds down).
BigShr(a, k) == <<a[1] \div 2^k, (a[1] % 2^k) * 2^(22 - k) + a[2] \div 2^k>>

BigOr(a, b) == <<IntOr(a[1], b[1]), IntOr(a[2], b[2])>>

BigAnd(a, b) == <<IntAnd(a[1], b[1]), IntAnd(a[2], b[2])>>

BigAdd(a, b) == <<a[1] + b[1] + (a[2] + b[2]) \div Limb, (a[2] + b[2]) % Limb>>

BigNeg(a) == IF a[2] = 0 THEN <<-a[1], 0>> ELSE <<-a[1] - 1, Limb - a[2]>>

\* a < b as integers.
BigLess(a, b) == a[1] < b[1] \/ (a[1] = b[1] /\ a[2] < b[2])

\* The quotient and the remainder of a >= 0 by 10.
BigDiv10(a) == <<a[1] \div 10, ((a[1] % 10) * Limb + a[2]) \div 10>>

BigMod10(a) == ((a[1] % 10) * Limb + a[2]) % 10

Digits == <<"0", "1", "2", "3", "4", "5", "6", "7", "8", "9">>

DigitValue(c) == CHOOSE d \in 0 .. 9 : Digits[d + 1] = c

\* The decimal digits of a >= 0, most significant first.
NatToString(a) ==
    LET digits[n \in Int \X Int] ==
            IF n[1] = 0 /\ n[2] < 10 THEN <<Digits[n[2] + 1]>>
            ELSE Append(digits[BigDiv10(n)], Digits[BigMod10(n) + 1])
    IN  digits[a]

\* a.toString(): canonical decimal, "-" before a negative value.
BigToString(a) ==
    IF a[1] < 0 THEN <<"-">> \o NatToString(BigNeg(a)) ELSE NatToString(a)

\* The value of the digits s read after the value acc.
NatFromString(s, acc) ==
    LET shift[a \in Int \X Int, d \in 0 .. 9] ==
            <<a[1] * 10 + (a[2] * 10 + d) \div Limb, (a[2] * 10 + d) % Limb>>
        value[k \in 0 .. Len(s)] ==
            IF k = 0 THEN acc ELSE shift[value[k - 1], DigitValue(s[k])]
    IN  value[Len(s)]

\* BigInt(s) of a decimal string s.
BigFromString(s) ==
    IF Head(s) = "-" THEN BigNeg(NatFromString(Tail(s), <<0, 0>>))
    ELSE NatFromString(s, <<0, 0>>)

\* ------------------------------------------------------- pure functions

\* Number.isInteger(n), n held as 2n.
IsInteger(twice) == twice % 2 = 0

\* generateMachineIdFromHostname on the first two bytes of the host name's
\* SHA-256 digest: ((hash[0] << 8) | hash[1]) & MAX_MACHINE_ID.
MachineIdFromHash(hash0, hash1) ==
    IntAnd(IntOr(hash0 * 2^8, hash1), MAX_MACHINE_ID)

\* The digest bytes the model draws from.
HashBytes == {0, 3, 4, 5, 255}

\* What generateMachineIdFromHostname can return: the truncated hash, or on
\* its catch path Math.floor(Math.random() * (MAX_MACHINE_ID + 1)).
generateMachineIdFromHostname ==
    {MachineIdFromHash(h0, h1) : h0 \in HashBytes, h1 \in HashBytes}
        \cup {0, 1, MAX_MACHINE_ID}

\* Faulty variant: the upper bound off by one, 1024 accepted.
validateMachineId_OffByOne(twice) ==
    ~(~IsInteger(twice) \/ twice < 0 \/ twice > 2 * (MAX_MACHINE_ID + 1))

\* validateMachineId returns (TRUE) or throws (FALSE); machineId held as 2n.
validateMachineId(twice) ==
    ~(~IsInteger(twice) \/ twice < 0 \/ twice > 2 * MAX_MACHINE_ID)

\* Faulty variant: epoch > now in place of epoch >= now.
validateEpoch_Gt(epochArg, now) == ~(epochArg > now)

\* validateEpoch returns (TRUE) or throws (FALSE) on the clock reading now.
\* Its overflow warning is console output only and is left out.
validateEpoch(epochArg, now) == ~(epochArg >= now)

\* Faulty variant: the throw inside the if (warnOnDrift) block.
handleClockDrift_OnlyIfWarned(currentTimestamp, last, warn) ==
    LET drift == last - currentTimestamp IN warn /\ drift > DRIFT_LIMIT

\* Faulty variant: drift >= 5000n in place of drift > 5000n.
handleClockDrift_Geq(currentTimestamp, last, warn) ==
    LET drift == last - currentTimestamp IN drift >= DRIFT_LIMIT

\* handleClockDrift throws (TRUE) or returns (FALSE).
handleClockDrift(currentTimestamp, last, warn) ==
    LET drift == last - currentTimestamp IN drift > DRIFT_LIMIT

\* What handleClockDrift writes with console.warn before that: the drift,
\* when warn is set.
handleClockDriftWarning(currentTimestamp, last, warn) ==
    LET drift == last - currentTimestamp IN IF warn THEN <<drift>> ELSE <<>>

\* Faulty variant: timestamp < lastTimestamp, so the wait ends within the
\* millisecond it was to leave.
waitForNextMillisecond_Lt(timestamp, last) == timestamp < last

\* Faulty variant: the comparison inverted.
waitForNextMillisecond_Inverted(timestamp, last) == timestamp > last

\* Faulty variant: the loop left out, the first reading returned as it is.
waitForNextMillisecond_Once(timestamp, last) == FALSE

\* Faulty variant: the loop never left.
waitForNextMillisecond_Forever(timestamp, last) == TRUE

\* The loop condition of waitForNextMillisecond: keep reading the clock.
waitForNextMillisecond(timestamp, last) == timestamp <= last

\* Faulty variant: the timestamp shifted by MACHINE_ID_SHIFT.
constructSnowflakeId_Shift(timestamp, epochArg, machine, seq) ==
    BigOr(BigOr(BigShl(timestamp - epochArg, MACHINE_ID_SHIFT),
                BigShl(machine, MACHINE_ID_SHIFT)),
          BigOf(seq))

\* Faulty variant: the machine ID left out of the id.
constructSnowflakeId_NoMachine(timestamp, epochArg, machine, seq) ==
    BigOr(BigShl(timestamp - epochArg, TIMESTAMP_SHIFT), BigOf(seq))

\* Faulty variant: the machine ID shifted by MACHINE_ID_BITS, into the
\* sequence's bits.
constructSnowflakeId_MachineShift(timestamp, epochArg, machine, seq) ==
    BigOr(BigOr(BigShl(timestamp - epochArg, TIMESTAMP_SHIFT),
                BigShl(machine, MACHINE_ID_BITS)),
          BigOf(seq))

constructSnowflakeId(timestamp, epochArg, machine, seq) ==
    BigOr(BigOr(BigShl(timestamp - epochArg, TIMESTAMP_SHIFT),
                BigShl(machine, MACHINE_ID_SHIFT)),
          BigOf(seq))

\* Faulty variant: the mask forgotten.
incrementSequence_NoMask(seq) == seq + 1

incrementSequence(seq) == IntAnd(seq + 1, MAX_SEQUENCE)

resetSequence == 0

\* Faulty variant: the epoch not added back.
parseSnowflakeId_NoEpoch(id, epochArg) ==
    LET idBigInt == BigFromString(id)
    IN  [id        |-> id,
         timestamp |-> BigToNumber(BigShr(idBigInt, TIMESTAMP_SHIFT)),
         machineId |-> BigToNumber(BigAnd(BigShr(idBigInt, MACHINE_ID_SHIFT),
                                          BigOf(MAX_MACHINE_ID))),
         sequence  |-> BigToNumber(BigAnd(idBigInt, BigOf(MAX_SEQUENCE)))]

\* parseSnowflakeId(id, epoch) on the decimal string id.
parseSnowflakeId(id, epochArg) ==
    LET idBigInt == BigFromString(id)
    IN  [id        |-> id,
         timestamp |-> BigToNumber(BigAdd(BigShr(idBigInt, TIMESTAMP_SHIFT),
                                          BigOf(epochArg))),
         machineId |-> BigToNumber(BigAnd(BigShr(idBigInt, MACHINE_ID_SHIFT),
                                          BigOf(MAX_MACHINE_ID))),
         sequence  |-> BigToNumber(BigAnd(idBigInt, BigOf(MAX_SEQUENCE)))]

\* ----------------------------------------------------------------- state

VARIABLES
    pc,             \* "none": no generator; "idle": between calls;
                    \* "waitDrift", "waitOverflow": a call spinning in
                    \* waitForNextMillisecond (line 118, line 125)
    machineId,      \* the configuration captured by createSnowflakeGenerator
    epoch,
    warnOnDrift,
    sequence,       \* createGeneratorState
    lastTimestamp,
    clock,          \* the wall clock at the latest step: what Date.now()
                    \* returned, or would have returned, there
    call,           \* the entry point of the call in progress
    result,         \* what the latest finished call returned or threw
    ctor,           \* the latest createSnowflakeGenerator call: its options
                    \* and its outcome
    lastOk,         \* history: what generateSnowflakeWithState returned
                    \* last and the wait it went through; n flips at every
                    \* return
    nondecr,        \* history: no reading since the latest return was below
                    \* the reading before it
    tracking,       \* history: whether issued and calls are kept
    issued,         \* history: every id returned so far, as an integer
    calls,          \* history: the calls made so far
    console,        \* what the latest call wrote with console.warn: the
                    \* drift of each clock-drift warning
    peer,           \* a second generator instance, as a record of the
                    \* above (NoPeer while there is none)
    actor           \* history: the instance the latest step ran on

vars == <<pc, machineId, epoch, warnOnDrift, sequence, lastTimestamp, clock,
          call, result, ctor, lastOk, nondecr, tracking, issued, calls,
          console, peer, actor>>

config == <<machineId, epoch, warnOnDrift>>

NoResult ==
    [kind |-> "none", id |-> <<>>, timestamp |-> 0, machineId |-> 0,
     sequence |-> 0, drift |-> 0]

NoRet == [some |-> FALSE, n |-> 0, id |-> <<>>, timestamp |-> 0,
          sequence |-> 0, waited |-> "none"]

NoOptions == [machineId |-> <<>>, epoch |-> <<>>, warnOnDrift |-> <<>>]

NoPeer ==
    [pc |-> "none", machineId |-> 0, epoch |-> 0, warnOnDrift |-> TRUE,
     sequence |-> 0, lastTimestamp |-> -1, call |-> "none",
     result |-> NoResult, lastOk |-> NoRet, issued |-> {}, console |-> <<>>]

\* The options of the generator the long call sequences run on: machine
\* ID 1023, epoch 1.
Options ==
    {[machineId |-> <<2 * MAX_MACHINE_ID>>, epoch |-> <<1>>,
      warnOnDrift |-> <<>>]}

\* The options of the generators the short call sequences run on: machine
\* IDs 0, 5 and 1023, epochs 0 and 1.
BurstOptions ==
    [machineId   : {<<0>>, <<10>>, <<2 * MAX_MACHINE_ID>>},
     epoch       : {<<0>>, <<1>>},
     warnOnDrift : {<<>>}]

\* The options the construction calls are tried with: machine IDs absent,
\* -1, 0, 1.5, 5, 1023, 1023.5, 1024; epochs around each clock reading.
CtorOptions ==
    [machineId   : {<<>>} \cup {<<t>> : t \in {-2, 0, 3, 10, 2 * MAX_MACHINE_ID,
                                               2 * MAX_MACHINE_ID + 1,
                                               2 * MAX_MACHINE_ID + 2}},
     epoch       : {<<e>> : e \in {-1, 0, 1, 2, DRIFT_LIMIT, DRIFT_LIMIT + 1,
                                   DRIFT_LIMIT + 2}},
     warnOnDrift : {<<>>, <<FALSE>>}]

Init ==
    /\ pc = "none"
    /\ machineId = 0
    /\ epoch = 0
    /\ warnOnDrift = TRUE
    /\ sequence = 0
    /\ lastTimestamp = -1
    /\ clock = 0
    /\ call = "none"
    /\ result = NoResult
    /\ ctor = [options |-> NoOptions, outcome |-> "none"]
    /\ lastOk = NoRet
    /\ nondecr = TRUE
    /\ tracking = FALSE
    /\ issued = {}
    /\ calls = 0
    /\ console = <<>>
    /\ peer = NoPeer
    /\ actor = "none"

\* ---------------------------------------------------------- construction

\* createSnowflakeGenerator(options), options drawn from O.  The epoch
\* option is always given: DEFAULT_EPOCH (1752383159010) is beyond TLC's
\* integers.
createSnowflakeGenerator(O) ==
    /\ pc = "none"
    /\ \E options \in O, now \in ClockValues :
       \E derived \in IF options.machineId = <<>>
                      THEN generateMachineIdFromHostname ELSE {0} :
        LET twice == IF options.machineId = <<>> THEN 2 * derived
                     ELSE options.machineId[1]
            ep    == options.epoch[1]
            warn  == IF options.warnOnDrift = <<>> THEN TRUE
                     ELSE options.warnOnDrift[1]
            done(outcome) == [options |-> options, outcome |-> outcome]
        IN  /\ clock' = now
            /\ IF options.machineId # <<>> /\ ~validateMachineId(twice)
               THEN /\ ctor' = done("InvalidMachineId")
                    /\ UNCHANGED <<pc, config, sequence, lastTimestamp>>
               ELSE IF ~validateEpoch(ep, now)
               THEN /\ ctor' = done("InvalidEpoch")
                    /\ UNCHANGED <<pc, config, sequence, lastTimestamp>>
               ELSE /\ ctor' = done("ok")
                    /\ pc' = "idle"
                    /\ machineId' = twice \div 2
                    /\ epoch' = ep
                    /\ warnOnDrift' = warn
                    /\ sequence' = 0
                    /\ lastTimestamp' = -1
    /\ actor' = "primary"
    /\ UNCHANGED <<call, result, lastOk, nondecr, tracking, issued, calls,
                   console, peer>>

getMachineId == machineId

getEpoch == epoch

\* ------------------------------------------------------------ generation

\* What generate() and generateWithInfo() hand back for the id and fields
\* generateSnowflakeWithState returned.
ApiResult(api, id, timestamp, machine, seq) ==
    IF api = "generate"
    THEN [NoResult EXCEPT !.kind = "id", !.id = BigToString(id)]
    ELSE [NoResult EXCEPT !.kind = "info", !.id = BigToString(id),
                          !.timestamp = BigToNumber(BigOf(timestamp)),
                          !.machineId = machine,
                          !.sequence = seq]

\* Lines 131-134 and the entry point's return: record the timestamp, pack
\* the id, hand the result to the caller.
Return(api, timestamp, seq) ==
    LET id == constructSnowflakeId(timestamp, epoch, machineId, seq)
    IN  /\ lastTimestamp' = timestamp
        /\ sequence' = seq
        /\ result' = ApiResult(api, id, timestamp, machineId, seq)
        /\ pc' = "idle"
        /\ call' = "none"
        /\ lastOk' = [some |-> TRUE, n |-> 1 - lastOk.n, id |-> result'.id,
                      timestamp |-> timestamp, sequence |-> seq,
                      waited |-> IF pc = "idle" THEN "none" ELSE pc]
        /\ nondecr' = TRUE
        /\ issued' = IF tracking THEN issued \cup {BigFromString(result'.id)}
                     ELSE issued

\* Entering waitForNextMillisecond: nothing is returned yet.
Wait(api, where, seq, mono) ==
    /\ pc' = where
    /\ call' = api
    /\ sequence' = seq
    /\ result' = NoResult
    /\ nondecr' = mono
    /\ UNCHANGED <<lastTimestamp, lastOk, issued>>

\* Faulty variant: the reading recorded before the check.
ClockDriftError_Recorded(drift, mono) ==
    /\ result' = [NoResult EXCEPT !.kind = "ClockDriftError", !.drift = drift]
    /\ nondecr' = mono
    /\ lastTimestamp' = lastTimestamp - drift
    /\ UNCHANGED <<pc, call, sequence, lastOk, issued>>

\* The throw of handleClockDrift, out of the entry point.
ClockDriftError(drift, mono) ==
    /\ result' = [NoResult EXCEPT !.kind = "ClockDriftError", !.drift = drift]
    /\ nondecr' = mono
    /\ UNCHANGED <<pc, call, sequence, lastTimestamp, lastOk, issued>>

\* Faulty variant: the check for the wrapped sequence left out.
SequenceStep_NoWait(api, timestamp, mono) ==
    IF timestamp = lastTimestamp
    THEN Return(api, timestamp, incrementSequence(sequence))
    ELSE Return(api, timestamp, resetSequence)

\* Lines 121-129: the sequence within the millisecond timestamp.
SequenceStep(api, timestamp, mono) ==
    IF timestamp = lastTimestamp
    THEN LET seq == incrementSequence(sequence)
         IN  IF seq = 0
             THEN Wait(api, "waitOverflow", seq, mono)
             ELSE Return(api, timestamp, seq)
    ELSE Return(api, timestamp, resetSequence)

\* generateSnowflakeWithState up to its first wait, its throw or its
\* return, entered through generate() or generateWithInfo().
Generate(api) ==
    /\ pc = "idle"
    /\ tracking => calls < MaxCalls
    /\ calls' = IF tracking THEN calls + 1 ELSE calls
    /\ \E now \in ClockValues :
        LET mono == nondecr /\ now >= clock
        IN  /\ clock' = now
            /\ IF now < lastTimestamp
               THEN /\ console' = handleClockDriftWarning(now, lastTimestamp,
                                                          warnOnDrift)
                    /\ IF handleClockDrift(now, lastTimestamp, warnOnDrift)
                       THEN ClockDriftError(lastTimestamp - now, mono)
                       ELSE Wait(api, "waitDrift", sequence, mono)
               ELSE /\ console' = <<>>
                    /\ SequenceStep(api, now, mono)
    /\ UNCHANGED <<config, ctor, tracking>>

generate ==
    Generate("generate") /\ actor' = "primary" /\ UNCHANGED peer

generateWithInfo ==
    Generate("generateWithInfo") /\ actor' = "primary" /\ UNCHANGED peer

\* One reading of the clock inside waitForNextMillisecond, and what follows
\* it when the loop ends.
WaitStep ==
    /\ pc \in {"waitDrift", "waitOverflow"}
    /\ \E now \in ClockValues :
        LET mono == nondecr /\ now >= clock
        IN  /\ clock' = now
            /\ IF waitForNextMillisecond(now, lastTimestamp)
               THEN /\ nondecr' = mono
                    /\ UNCHANGED <<pc, call, sequence, lastTimestamp, result,
                                   lastOk, issued>>
               ELSE IF pc = "waitDrift"
               THEN SequenceStep(call, now, mono)
               ELSE Return(call, now, sequence)
    /\ UNCHANGED <<config, ctor, tracking, calls, console>>

WaitRead == WaitStep /\ actor' = "primary" /\ UNCHANGED peer

Next ==
    \/ createSnowflakeGenerator(Options)
    \/ generate
    \/ generateWithInfo
    \/ WaitRead

Spec == Init /\ [][Next]_vars

\* The construction calls alone, over CtorOptions.
NextCtor == createSnowflakeGenerator(CtorOptions)

SpecCtor == Init /\ [][NextCtor]_vars

\* Short call sequences with the set of all ids kept.  They start on a
\* generator just constructed, or on one that has answered BurstStart + 1
\* calls within the millisecond of its first call: one call short of using
\* the last sequence number.
BurstStart == MAX_SEQUENCE - 1

InitBurst ==
    \E options \in BurstOptions, now \in ClockValues,
       t \in {-1} \cup ClockValues :
        LET machine == options.machineId[1] \div 2
            ep      == options.epoch[1]
            id(seq) == constructSnowflakeId(t, ep, machine, seq)
        IN  /\ validateMachineId(options.machineId[1])
            /\ validateEpoch(ep, now)
            /\ pc = "idle"
            /\ machineId = machine
            /\ epoch = ep
            /\ warnOnDrift = TRUE
            /\ ctor = [options |-> options, outcome |-> "ok"]
            /\ call = "none"
            /\ nondecr = TRUE
            /\ tracking = TRUE
            /\ calls = 0
            /\ console = <<>>
            /\ peer = NoPeer
            /\ actor = "none"
            /\ lastTimestamp = t
            /\ IF t = -1
               THEN /\ sequence = 0
                    /\ clock = now
                    /\ result = NoResult
                    /\ lastOk = NoRet
                    /\ issued = {}
               ELSE /\ sequence = BurstStart
                    /\ clock = t
                    /\ result = ApiResult("generate", id(BurstStart), t,
                                          machine, BurstStart)
                    /\ lastOk = [some |-> TRUE, n |-> (BurstStart + 1) % 2,
                                 id |-> BigToString(id(BurstStart)),
                                 timestamp |-> t, sequence |-> BurstStart,
                                 waited |-> "none"]
                    /\ issued = {id(seq) : seq \in 0 .. BurstStart}

NextBurst ==
    \/ generate
    \/ generateWithInfo
    \/ WaitRead

SpecBurst == InitBurst /\ [][NextBurst]_vars

\* A reading inside waitForNextMillisecond that is above lastTimestamp.
ClockProgress == WaitRead /\ clock' > lastTimestamp

\* The starts of the short call sequences on the generator of Options.
InitLive == InitBurst /\ ctor.options \in Options

\* Short call sequences on a clock that, while a call is spinning, goes on
\* to read above lastTimestamp if it can.
SpecLive == InitLive /\ [][NextBurst]_vars /\ WF_vars(ClockProgress)

\* ------------------------------------------------------ a second instance

\* Each createSnowflakeGenerator call has its own configuration and its own
\* createGeneratorState closure.  The second instance is the record peer;
\* the operators below are lines 107-135 and 137-149 on such a record.

\* Lines 131-134 and the entry point's return, on instance g.
ReturnOf(g, api, timestamp, seq) ==
    LET id  == constructSnowflakeId(timestamp, g.epoch, g.machineId, seq)
        res == ApiResult(api, id, timestamp, g.machineId, seq)
    IN  [g EXCEPT !.pc = "idle", !.call = "none",
                  !.lastTimestamp = timestamp, !.sequence = seq,
                  !.result = res,
                  !.lastOk = [some |-> TRUE, n |-> 1 - g.lastOk.n,
                              id |-> res.id, timestamp |-> timestamp,
                              sequence |-> seq,
                              waited |-> IF g.pc = "idle" THEN "none"
                                         ELSE g.pc],
                  !.issued = g.issued \cup {BigFromString(res.id)}]

\* Lines 121-129 on instance g.
SequenceStepOf(g, api, timestamp) ==
    IF timestamp = g.lastTimestamp
    THEN LET seq == incrementSequence(g.sequence)
         IN  IF seq = 0
             THEN [g EXCEPT !.pc = "waitOverflow", !.call = api,
                            !.sequence = seq, !.result = NoResult]
             ELSE ReturnOf(g, api, timestamp, seq)
    ELSE ReturnOf(g, api, timestamp, resetSequence)

\* One clock reading of instance g: the first reading of a call entered
\* through api when g is between calls, a reading inside
\* waitForNextMillisecond when it is spinning.
GeneratorStep(g, api, now) ==
    IF g.pc = "idle"
    THEN IF now < g.lastTimestamp
         THEN LET h == [g EXCEPT !.console =
                            handleClockDriftWarning(now, g.lastTimestamp,
                                                    g.warnOnDrift)]
              IN  IF handleClockDrift(now, g.lastTimestamp, g.warnOnDrift)
                  THEN [h EXCEPT !.result =
                            [NoResult EXCEPT !.kind = "ClockDriftError",
                                             !.drift = g.lastTimestamp - now]]
                  ELSE [h EXCEPT !.pc = "waitDrift", !.call = api,
                                 !.result = NoResult]
         ELSE SequenceStepOf([g EXCEPT !.console = <<>>], api, now)
    ELSE IF waitForNextMillisecond(now, g.lastTimestamp)
         THEN g
         ELSE IF g.pc = "waitDrift"
         THEN SequenceStepOf(g, g.call, now)
         ELSE ReturnOf(g, g.call, now, g.sequence)

\* The instance createSnowflakeGenerator(options) returns on the clock
\* reading now (derived: what generateMachineIdFromHostname returned), or
\* NoPeer when it throws.
GeneratorOf(options, now, derived) ==
    LET twice == IF options.machineId = <<>> THEN 2 * derived
                 ELSE options.machineId[1]
        ep    == options.epoch[1]
        warn  == IF options.warnOnDrift = <<>> THEN TRUE
                 ELSE options.warnOnDrift[1]
    IN  IF options.machineId # <<>> /\ ~validateMachineId(twice)
        THEN NoPeer
        ELSE IF ~validateEpoch(ep, now)
        THEN NoPeer
        ELSE [NoPeer EXCEPT !.pc = "idle", !.machineId = twice \div 2,
                            !.epoch = ep, !.warnOnDrift = warn]

\* Faulty variant: sequence and lastTimestamp declared at module level, one
\* pair for every instance.
PeerWrite_Shared(g) ==
    /\ peer' = g
    /\ sequence' = g.sequence
    /\ lastTimestamp' = g.lastTimestamp
    /\ UNCHANGED <<pc, config, call, result, ctor, lastOk, tracking, issued,
                   console>>

\* A step of the second instance writes the variables of its own closure
\* (lines 94-95) and no others.
PeerWrite(g) ==
    /\ peer' = g
    /\ UNCHANGED <<pc, config, sequence, lastTimestamp, call, result, ctor,
                   lastOk, tracking, issued, console>>

\* The options the second instance is made with: machine IDs 0 and 5,
\* epochs 0 and 1.
PairOptions ==
    [machineId   : {<<0>>, <<10>>},
     epoch       : {<<0>>, <<1>>},
     warnOnDrift : {<<>>}]

\* The options the first instance is made with beside it: machine ID 5,
\* epoch 1.
PrimaryOptions ==
    {options \in PairOptions :
        options.machineId = <<10>> /\ options.epoch = <<1>>}

peerCreate ==
    /\ peer.pc = "none"
    /\ \E options \in PairOptions, now \in ClockValues :
        /\ clock' = now
        /\ nondecr' = (nondecr /\ now >= clock)
        /\ PeerWrite(GeneratorOf(options, now, 0))
    /\ actor' = "peer"
    /\ UNCHANGED calls

PeerGenerate(api) ==
    /\ peer.pc = "idle"
    /\ calls < MaxCalls
    /\ calls' = calls + 1
    /\ \E now \in ClockValues :
        /\ clock' = now
        /\ nondecr' = (nondecr /\ now >= clock)
        /\ PeerWrite(GeneratorStep(peer, api, now))
    /\ actor' = "peer"

peerGenerate == PeerGenerate("generate")

peerGenerateWithInfo == PeerGenerate("generateWithInfo")

peerWaitRead ==
    /\ peer.pc \in {"waitDrift", "waitOverflow"}
    /\ \E now \in ClockValues :
        /\ clock' = now
        /\ nondecr' = (nondecr /\ now >= clock)
        /\ PeerWrite(GeneratorStep(peer, peer.call, now))
    /\ actor' = "peer"
    /\ UNCHANGED calls

\* No generator yet; the ids returned and the calls made are kept, and at
\* most MaxCalls calls are made in all.
InitTracked ==
    /\ pc = "none"
    /\ machineId = 0
    /\ epoch = 0
    /\ warnOnDrift = TRUE
    /\ sequence = 0
    /\ lastTimestamp = -1
    /\ clock = 0
    /\ call = "none"
    /\ result = NoResult
    /\ ctor = [options |-> NoOptions, outcome |-> "none"]
    /\ lastOk = NoRet
    /\ nondecr = TRUE
    /\ tracking = TRUE
    /\ issued = {}
    /\ calls = 0
    /\ console = <<>>
    /\ peer = NoPeer
    /\ actor = "none"

NextPair ==
    \/ createSnowflakeGenerator(PrimaryOptions)
    \/ generate
    \/ generateWithInfo
    \/ WaitRead
    \/ peerCreate
    \/ peerGenerate
    \/ peerGenerateWithInfo
    \/ peerWaitRead

\* Two instances, their calls interleaved in any order.
SpecPair == InitTracked /\ [][NextPair]_vars

\* Two instances made from the same options but for warnOnDrift, true for
\* the first and false for the second, and driven together: each call is
\* made on both, and each clock reading is given to both.
InitTwin ==
    \E options \in PairOptions, now \in ClockValues :
        /\ validateMachineId(options.machineId[1])
        /\ validateEpoch(options.epoch[1], now)
        /\ pc = "idle"
        /\ machineId = options.machineId[1] \div 2
        /\ epoch = options.epoch[1]
        /\ warnOnDrift = TRUE
        /\ sequence = 0
        /\ lastTimestamp = -1
        /\ clock = now
        /\ call = "none"
        /\ result = NoResult
        /\ ctor = [options |-> options, outcome |-> "ok"]
        /\ lastOk = NoRet
        /\ nondecr = TRUE
        /\ tracking = TRUE
        /\ issued = {}
        /\ calls = 0
        /\ console = <<>>
        /\ peer = GeneratorOf([options EXCEPT !.warnOnDrift = <<FALSE>>],
                              now, 0)
        /\ actor = "none"

TwinGenerate(api) ==
    /\ Generate(api)
    /\ peer' = GeneratorStep(peer, api, clock')
    /\ actor' = "both"

twinGenerate == TwinGenerate("generate")

twinGenerateWithInfo == TwinGenerate("generateWithInfo")

twinWaitRead ==
    /\ WaitStep
    /\ peer' = GeneratorStep(peer, call, clock')
    /\ actor' = "both"

NextTwin ==
    \/ twinGenerate
    \/ twinGenerateWithInfo
    \/ twinWaitRead

SpecTwin == InitTwin /\ [][NextTwin]_vars

\* ------------------------------------------------- generateSnowflakeId

\* The options of defaultGenerator (line 199).  The source passes none; its
\* epoch DEFAULT_EPOCH is beyond TLC's integers, so the instance is made
\* here with an epoch the model can hold and a machine ID derived from the
\* host name.
DefaultOptions == {[machineId |-> <<>>, epoch |-> <<0>>, warnOnDrift |-> <<>>]}

\* generateSnowflakeId(options), options absent or drawn from O.  Without
\* options it is a call of defaultGenerator.  With options it makes a new
\* generator, which validates them on the clock reading now, and calls it
\* once, on the reading later; the generator is then dropped.  That call
\* cannot wait: lastTimestamp is -1, below every reading.
generateSnowflakeId(O) ==
    /\ pc = "idle"
    /\ \/ Generate("generate") /\ actor' = "primary" /\ UNCHANGED peer
       \/ /\ tracking => calls < MaxCalls
          /\ calls' = IF tracking THEN calls + 1 ELSE calls
          /\ \E options \in O, now \in ClockValues, later \in ClockValues :
              \E derived \in IF options.machineId = <<>>
                             THEN generateMachineIdFromHostname ELSE {0} :
               LET generator == GeneratorOf(options, now, derived)
                   done(outcome) == [options |-> options, outcome |-> outcome]
               IN  IF generator.pc = "none"
                   THEN /\ clock' = now
                        /\ nondecr' = (nondecr /\ now >= clock)
                        /\ ctor' = done(IF /\ options.machineId # <<>>
                                           /\ ~validateMachineId(
                                                  options.machineId[1])
                                        THEN "InvalidMachineId"
                                        ELSE "InvalidEpoch")
                        /\ result' = [NoResult EXCEPT !.kind = ctor'.outcome]
                        /\ console' = <<>>
                   ELSE LET after == GeneratorStep(generator, "generate",
                                                  later)
                        IN  /\ clock' = later
                            /\ nondecr' = (/\ nondecr /\ now >= clock
                                           /\ later >= now)
                            /\ ctor' = done("ok")
                            /\ result' = after.result
                            /\ console' = after.console
          /\ actor' = "temporary"
          /\ UNCHANGED <<pc, config, sequence, lastTimestamp, call, lastOk,
                         tracking, issued, peer>>

NextConvenience ==
    \/ createSnowflakeGenerator(DefaultOptions)
    \/ generateSnowflakeId(PairOptions)
    \/ WaitRead

\* The module as loaded, and calls of its convenience function.
SpecConvenience == InitTracked /\ [][NextConvenience]_vars

\* ------------------------------------------------------------ properties

\* A step in which a call returns an id.
Returned == lastOk'.n # lastOk.n

\* A step in which a call throws the clock-drift error.
Threw == pc = "idle" /\ pc' = "idle" /\ result'.kind = "ClockDriftError"

IdOf(r) == BigFromString(r.id)

\* C1: every id a call returns differs from every id the instance returned
\* before, whatever the clock did and whichever calls failed in between.
C1_IdsPairwiseDistinct == [][Returned => IdOf(result') \notin issued]_vars

\* C1 happens: a full millisecond of ids, the wait for the next one, an id
\* in it, and then a call that failed with the clock-drift error.
C1_Witness ==
    /\ tracking
    /\ result.kind = "ClockDriftError"
    /\ lastOk.waited = "waitOverflow"
    /\ Cardinality(issued) = MAX_SEQUENCE + 2

\* C2: of two consecutive successful calls with no clock reading below the
\* one before it, the second returns the greater integer.
C2_StrictlyIncreasing ==
    [][(Returned /\ lastOk.some /\ nondecr /\ clock' >= clock)
          => BigLess(IdOf(lastOk), IdOf(result'))]_vars

\* C2 happens: a second id within millisecond 0, below which the clock
\* cannot read.
C2_Witness == lastOk.some /\ lastOk.timestamp = 0 /\ lastOk.sequence = 1

\* C3: parseSnowflakeId, given the generator's epoch, recovers from the id
\* of every generateWithInfo() result that result's timestamp, machineId
\* and sequence.
C3_RoundTrip ==
    result.kind = "info" =>
        parseSnowflakeId(result.id, getEpoch) =
            [id |-> result.id, timestamp |-> result.timestamp,
             machineId |-> result.machineId, sequence |-> result.sequence]

\* C3 happens: a result with every bit of the machine ID and of the sequence
\* set, on an epoch other than 0.
C3_Witness ==
    /\ result.kind = "info"
    /\ result.machineId = MAX_MACHINE_ID
    /\ result.sequence = MAX_SEQUENCE
    /\ epoch # 0

\* C4: a call whose first reading is below lastTimestamp throws the
\* clock-drift error exactly when lastTimestamp - reading > 5000.
C4_DriftThreshold ==
    [][(pc = "idle" /\ clock' < lastTimestamp)
          => (Threw <=> lastTimestamp - clock' > DRIFT_LIMIT)]_vars

\* C4 happens: a call threw on a backward jump of exactly 5001 ms.
C4_Witness ==
    result.kind = "ClockDriftError" /\ result.drift = DRIFT_LIMIT + 1

\* C5: a call that throws the clock-drift error leaves sequence,
\* lastTimestamp and the configuration as they were.
C5_NoPartialFailure ==
    [][Threw => /\ sequence' = sequence
                /\ lastTimestamp' = lastTimestamp
                /\ config' = config]_vars

\* C5 happens: a call threw in the middle of a millisecond's sequence.
C5_Witness == result.kind = "ClockDriftError" /\ sequence = MAX_SEQUENCE

\* C6: every returned sequence is in 0..4095; it is 0 on the first id and
\* on an id in a later millisecond than the one before, and one more than
\* the one before within the same millisecond.
C6_SequenceRule ==
    [][Returned =>
          /\ lastOk'.sequence \in 0 .. MAX_SEQUENCE
          /\ ~lastOk.some => lastOk'.sequence = 0
          /\ (lastOk.some /\ lastOk'.timestamp > lastOk.timestamp)
                => lastOk'.sequence = 0
          /\ (lastOk.some /\ lastOk'.timestamp = lastOk.timestamp)
                => lastOk'.sequence = lastOk.sequence + 1]_vars

\* C6 happens: the last sequence number of a millisecond was returned.
C6_Witness == lastOk.some /\ lastOk.sequence = MAX_SEQUENCE

\* C7: every returned id is in 0 .. 2^63 - 1: its timestamp field is not
\* negative and fits TIMESTAMP_BITS bits.
C7_TopBitZero ==
    result.kind \in {"id", "info"} =>
        /\ IdOf(result)[1] >= 0
        /\ IdOf(result)[1] \div 2^(TIMESTAMP_BITS - 21) < 2^21

\* C8: lastTimestamp never decreases, and a successful call returns a
\* timestamp no smaller than the successful call before it.
C8_TimestampMonotone ==
    [][/\ lastTimestamp' >= lastTimestamp
       /\ (Returned /\ lastOk.some)
             => lastOk'.timestamp >= lastOk.timestamp]_vars

\* C8 happens: after an id, a call that read the clock below lastTimestamp
\* waited and returned.
C8_Witness == pc = "idle" /\ lastOk.waited = "waitDrift" /\ lastOk.n = 0

\* C9: a construction given a machineId that is not an integer in 0..1023
\* fails and leaves no generator; every generator there is has a machine ID
\* in 0..1023.
C9_MachineIdValidated ==
    /\ (/\ ctor.outcome # "none"
        /\ ctor.options.machineId # <<>>
        /\ ctor.options.machineId[1] \notin {2 * m : m \in 0 .. MAX_MACHINE_ID})
          => (ctor.outcome # "ok" /\ pc = "none")
    /\ pc # "none" => getMachineId \in 0 .. MAX_MACHINE_ID

\* C9 happens: a construction with machineId 1024 failed.
C9_Witness ==
    /\ ctor.outcome = "InvalidMachineId"
    /\ ctor.options.machineId = <<2 * MAX_MACHINE_ID + 2>>

\* C10 as stated: a construction fails exactly when its epoch is not below
\* the clock.
C10_FailsIffEpochNotPast ==
    ctor.outcome # "none" =>
        (ctor.outcome # "ok" <=> ctor.options.epoch[1] >= clock)

\* C10 amended: a construction whose machineId is absent or valid fails
\* exactly when its epoch is not below the clock.
C10_FailsIffEpochNotPastGivenMachineId ==
    (/\ ctor.outcome # "none"
     /\ \/ ctor.options.machineId = <<>>
        \/ ctor.options.machineId[1] \in {2 * m : m \in 0 .. MAX_MACHINE_ID})
        => /\ ctor.outcome # "ok" <=> ctor.options.epoch[1] >= clock
           /\ ctor.outcome # "ok" => pc = "none"

\* C10 happens: a construction with a valid machineId and an epoch equal to
\* the clock failed.
C10_Witness ==
    /\ ctor.outcome = "InvalidEpoch"
    /\ ctor.options.epoch[1] = clock
    /\ ctor.options.machineId # <<>>

\* A step in which a call on the second instance returns an id.
PeerReturned == peer'.lastOk.n # peer.lastOk.n

\* C11: two instances with the same epoch and distinct machine IDs never
\* return the same id: an id one of them returns is none the other has
\* returned, however their calls interleave and whatever the clock reads.
C11_InstancesDisjoint ==
    [][(/\ pc' # "none" /\ peer'.pc # "none"
        /\ epoch' = peer'.epoch
        /\ machineId' # peer'.machineId)
          => /\ Returned => IdOf(result') \notin peer.issued
             /\ PeerReturned => IdOf(peer'.result) \notin issued]_vars

\* C11 happens: both instances have returned an id of the same millisecond
\* and the same sequence number.
C11_Witness ==
    /\ pc # "none" /\ peer.pc # "none"
    /\ epoch = peer.epoch /\ machineId # peer.machineId
    /\ lastOk.some /\ peer.lastOk.some
    /\ lastOk.timestamp = peer.lastOk.timestamp
    /\ lastOk.sequence = peer.lastOk.sequence

\* The integer timestampField * 2^22 + machine * 2^12 + seq.
Packed(timestampField, machine, seq) ==
    BigAdd(<<timestampField, 0>>, BigOf(machine * 2^MACHINE_ID_SHIFT + seq))

\* C12: the id a call returns is (now - epoch) * 2^22 + machineId * 2^12 +
\* sequence on the timestamp, machine ID and sequence of that call; the
\* sequence is the id's bits 0-11, the machine ID its bits 12-21, the
\* timestamp what is above them; epoch 0, machine ID 5, timestamp 1000 and
\* sequence 0 give 4194324480.
C12_PackedLayout ==
    /\ result.kind = "info" =>
        /\ IdOf(result) = Packed(result.timestamp - getEpoch,
                                 result.machineId, result.sequence)
        /\ IdOf(result)[2] % 2^SEQUENCE_BITS = result.sequence
        /\ IdOf(result)[2] \div 2^SEQUENCE_BITS = result.machineId
        /\ IdOf(result)[1] = result.timestamp - getEpoch
    /\ result.kind = "id" =>
        IdOf(result) = Packed(lastOk.timestamp - getEpoch, getMachineId,
                              lastOk.sequence)
    /\ BigToString(constructSnowflakeId(1000, 0, 5, 0))
          = <<"4", "1", "9", "4", "3", "2", "4", "4", "8", "0">>

\* C12 happens: an id with machine ID 5 and the last sequence number of a
\* millisecond after the epoch.
C12_Witness ==
    /\ result.kind = "info"
    /\ result.machineId = 5
    /\ result.sequence = MAX_SEQUENCE
    /\ result.timestamp > epoch

\* C13: two calls of generateSnowflakeId(options) in a row with the same
\* options return different ids, whatever the clock reads.
C13_ConvenienceDistinct ==
    [][(/\ actor = "temporary" /\ actor' = "temporary"
        /\ calls' # calls
        /\ result.kind = "id" /\ result'.kind = "id"
        /\ ctor'.options = ctor.options)
          => result'.id # result.id]_vars

\* A step in which a call is entered: its first clock reading.
Entered == pc = "idle" /\ calls' # calls

\* The ids returned so far that carry the timestamp field of id.
SameMillisecond(id) == {other \in issued : other[1] = id[1]}

\* C14: a call entered on sequence 4095 with the clock still reading
\* lastTimestamp returns nothing before a reading above lastTimestamp; on
\* such a reading it returns that reading as its timestamp, with sequence
\* 0.  No more than 4096 of the ids returned carry the same timestamp.
C14_SequenceExhaustion ==
    /\ [][/\ (/\ Entered
              /\ sequence = MAX_SEQUENCE
              /\ clock' = lastTimestamp)
                => (pc' = "waitOverflow" /\ ~Returned)
          /\ (pc = "waitOverflow" /\ clock' <= lastTimestamp)
                => /\ pc' = "waitOverflow"
                   /\ ~Returned
                   /\ lastTimestamp' = lastTimestamp
          /\ (pc = "waitOverflow" /\ clock' > lastTimestamp)
                => /\ Returned
                   /\ pc' = "idle"
                   /\ lastOk'.timestamp = clock'
                   /\ lastOk'.sequence = 0
                   /\ lastTimestamp' = clock']_vars
    /\ [](\A h \in {id[1] : id \in issued} :
            Cardinality({id \in issued : id[1] = h}) <= MAX_SEQUENCE + 1)

\* C14 happens: 4096 ids of one millisecond, then the call that waited for
\* the next millisecond and returned in it.
C14_Witness ==
    /\ pc = "idle"
    /\ lastOk.waited = "waitOverflow"
    /\ lastOk.sequence = 0
    /\ \E id \in issued : Cardinality(SameMillisecond(id)) = MAX_SEQUENCE + 1

\* C15: a call whose first reading is below lastTimestamp by at most 5000
\* returns nothing before a reading above lastTimestamp; on such a reading
\* it returns that reading as its timestamp, with sequence 0; the timestamp
\* of the id it returns is never lastTimestamp or below it.
C15_SelfHealing ==
    [][/\ (/\ pc = "idle"
           /\ clock' < lastTimestamp
           /\ lastTimestamp - clock' <= DRIFT_LIMIT)
             => /\ pc' = "waitDrift"
                /\ ~Returned
                /\ lastTimestamp' = lastTimestamp
       /\ (pc = "waitDrift" /\ clock' <= lastTimestamp)
             => /\ pc' = "waitDrift"
                /\ ~Returned
                /\ lastTimestamp' = lastTimestamp
       /\ (pc = "waitDrift" /\ clock' > lastTimestamp)
             => /\ Returned
                /\ pc' = "idle"
                /\ lastOk'.timestamp = clock'
                /\ lastOk'.sequence = 0
       /\ (pc = "waitDrift" /\ Returned)
             => lastOk'.timestamp > lastTimestamp]_vars

\* C15 happens: a call that read the clock exactly 5000 ms below
\* lastTimestamp has waited, past readings at and below lastTimestamp, and
\* returned.
C15_Witness ==
    /\ pc = "idle"
    /\ lastOk.waited = "waitDrift"
    /\ console = <<DRIFT_LIMIT>>
    /\ lastOk.sequence = 0
    /\ lastOk.timestamp > DRIFT_LIMIT

\* A call is spinning in one of the two waits.
Waiting == pc \in {"waitDrift", "waitOverflow"}

\* C16: a call, once entered, has returned, has thrown the clock-drift
\* error or is spinning in one of the two waits; a spinning call returns if
\* the clock can read above lastTimestamp; a call whose first reading is
\* above lastTimestamp, or equal to it on a sequence below 4095, returns at
\* once.
C16_Termination ==
    /\ (Waiting /\ \E now \in ClockValues : now > lastTimestamp)
          ~> (pc = "idle" /\ result.kind \in {"id", "info"})
    /\ [][/\ Entered => (Returned \/ Threw \/ (pc' \in {"waitDrift",
                                                       "waitOverflow"}))
          /\ (Waiting /\ pc' # pc) => (Returned /\ pc' = "idle")
          /\ (/\ Entered
              /\ \/ clock' > lastTimestamp
                 \/ clock' = lastTimestamp /\ sequence < MAX_SEQUENCE)
                => (Returned /\ pc' = "idle")]_vars
    /\ [](pc \in {"idle", "waitDrift", "waitOverflow"})

\* C16 happens: a call that spun on the wrapped sequence has returned, and
\* the call after it returned at once.
C16_Witness ==
    /\ pc = "idle"
    /\ lastOk.waited = "none"
    /\ lastOk.sequence = 1
    /\ Cardinality(issued) = MAX_SEQUENCE + 3

\* C17: every clock reading of a call that is more than 5000 ms below
\* lastTimestamp, the first one or a later one inside a wait, ends the call
\* with the clock-drift error.
C17_DriftCheckedOnEveryReading ==
    [][((pc = "idle" \/ Waiting) /\ lastTimestamp - clock' > DRIFT_LIMIT)
          => (pc' = "idle" /\ result'.kind = "ClockDriftError")]_vars

\* C18: of two generators that differ only in warnOnDrift and are given the
\* same calls and the same clock readings, each returns what the other
\* returns and throws when the other throws, and after every step both
\* hold the same sequence and lastTimestamp.
C18_WarnOnDriftUnobservable ==
    /\ peer.result = result
    /\ peer.pc = pc
    /\ peer.sequence = sequence
    /\ peer.lastTimestamp = lastTimestamp
    /\ peer.issued = issued
    /\ <<peer.machineId, peer.epoch>> = <<getMachineId, getEpoch>>

\* C18 happens: both have thrown on a backward jump of 5001 ms, of which
\* only the first has written a warning.
C18_Witness ==
    /\ warnOnDrift /\ ~peer.warnOnDrift
    /\ result.kind = "ClockDriftError"
    /\ peer.result.kind = "ClockDriftError"
    /\ console = <<DRIFT_LIMIT + 1>>
    /\ peer.console = <<>>

\* C19: a step of one instance leaves the sequence and lastTimestamp of the
\* other as they were, and what getMachineId() and getEpoch() return for an
\* instance never changes once it is made.
C19_InstanceIsolation ==
    [][/\ actor' = "primary"
             => /\ peer'.sequence = peer.sequence
                /\ peer'.lastTimestamp = peer.lastTimestamp
       /\ actor' = "peer"
             => /\ sequence' = sequence
                /\ lastTimestamp' = lastTimestamp
       /\ pc # "none"
             => (machineId' = getMachineId /\ epoch' = getEpoch)
       /\ peer.pc # "none"
             => /\ peer'.machineId = peer.machineId
                /\ peer'.epoch = peer.epoch]_vars

\* C19 happens: both instances have answered calls and hold different
\* sequences and different lastTimestamps.
C19_Witness ==
    /\ lastOk.some /\ peer.lastOk.some
    /\ sequence # peer.sequence
    /\ lastTimestamp # peer.lastTimestamp
    /\ actor = "peer"

====
